---- MODULE Spec2Model ----
(***************************************************************************)
(* Model of packages/dev-ts/src/tsconfig.js: readConfigFile (the recursive *)
(* walk of a tsconfig "extends" chain) and extractAliases (the compilation *)
(* of the merged "paths" into alias rules), run once at module load.       *)
(*                                                                         *)
(* Strings are sequences of one-character strings, so that split, join and *)
(* startsWith are computed as the code computes them.  A path is the       *)
(* sequence of its segments (absolute, normalised, POSIX).  An optional    *)
(* value is a sequence of length 0 (undefined) or 1.  A JS object used as  *)
(* a mapping is the sequence of its entries in insertion order; the keys   *)
(* used here are never integer-like, so insertion order is iteration order.*)
(***************************************************************************)
EXTENDS Naturals, Sequences, FiniteSets, TLC

VARIABLES disk, stack, ret, exc, log, pc, tsAliases

vars == <<disk, stack, ret, exc, log, pc, tsAliases>>

----------------------------------------------------------------------------
(* Bounds *)

\* frames the engine's call stack holds before a call throws RangeError
MaxStack == 4
\* longest generated alias key, in characters
MaxKeyLen == 3

----------------------------------------------------------------------------
(* Optional values and small helpers *)

Undef == <<>>
Def(x) == <<x>>
IsDef(o) == Len(o) > 0
Val(o) == o[1]

Last(s) == s[Len(s)]
Front(s) == SubSeq(s, 1, Len(s) - 1)

\* a string is truthy iff it is defined and not empty
Truthy(o) == IsDef(o) /\ Len(Val(o)) > 0

----------------------------------------------------------------------------
(* String and path functions *)

RECURSIVE SplitFrom(_, _, _, _, _)
SplitFrom(s, seps, i, cur, acc) ==
  IF i > Len(s) THEN Append(acc, cur)
  ELSE IF s[i] \in seps THEN SplitFrom(s, seps, i + 1, <<>>, Append(acc, cur))
  ELSE SplitFrom(s, seps, i + 1, Append(cur, s[i]), acc)

\* String.prototype.split on a one-character class: always at least one piece
Split(s, seps) == SplitFrom(s, seps, 1, <<>>, <<>>)

\* key.split(/[\\/]/), parentConfig.split(/[\\/]/)
SplitSlashes(s) == Split(s, {"/", "\\"})

RECURSIVE Normalize(_, _)
\* path.normalize on an absolute POSIX path: '' and '.' vanish, '..' pops
Normalize(done, segs) ==
  IF segs = <<>> THEN done
  ELSE LET h == Head(segs) IN
    IF Len(h) = 0 \/ h = <<".">> THEN Normalize(done, Tail(segs))
    ELSE IF h = <<".", ".">>
      THEN Normalize(IF done = <<>> THEN done ELSE Front(done), Tail(segs))
    ELSE Normalize(Append(done, h), Tail(segs))

RECURSIVE PosixSegs(_)
PosixSegs(strs) ==
  IF strs = <<>> THEN <<>>
  ELSE Split(Head(strs), {"/"}) \o PosixSegs(Tail(strs))

\* path.join(base, ...strs): only '/' separates on POSIX
PathJoin(base, strs) == Normalize(<<>>, base \o PosixSegs(strs))

\* path.dirname of a normalised absolute path
Dirname(p) == IF p = <<>> THEN p ELSE Front(p)

\* pathToFileURL of a directory: the URL keeps the directory's segments
pathToFileURL(p) == [pathname |-> p]

----------------------------------------------------------------------------
(* Collaborator constants imported from ./common.js *)

TSCONFIG == <<"t", "s", "c", "o", "n", "f", "i", "g", ".", "j", "s", "o", "n">>
CWD_PATH == << <<"w">> >>
MOD_PATH == << <<"m">> >>
CWD_URL == pathToFileURL(CWD_PATH)

----------------------------------------------------------------------------
(* The files on disk *)

F1 == Append(CWD_PATH, TSCONFIG)
F2 == Append(CWD_PATH, <<"b">>)
F3 == Append(MOD_PATH, <<"b">>)
Files == {F1, F2, F3}

NoJson == [compilerOptions |-> Undef, extends |-> Undef]
MissingFile == [kind |-> "missing", json |-> NoJson]
MalformedFile == [kind |-> "malformed", json |-> NoJson]
ConfigFile(co, ext) == [kind |-> "config", json |-> [compilerOptions |-> co, extends |-> ext]]

Entry(k, v) == [key |-> k, value |-> v]

\* extends references
RefDotB == <<".", "/", "b">>
RefB == <<"b">>
RefBackB == <<".", "\\", "b">>
RefBackTs == <<".", "\\">> \o TSCONFIG
RefDir == <<".", "/">>

KeyA == <<"a">>
KeyBStar == <<"b", "/", "*">>
KeyStarA == <<"*", "/", "a">>
TargetX == <<"x">>
TargetY == <<"y">>

\* chains: three files, two keys, every shape of chain over the three files
ChainPaths ==
  { Def(<<Entry(KeyA, <<TargetX>>)>>),
    Def(<<Entry(KeyA, <<TargetY, TargetX>>), Entry(KeyBStar, <<TargetY>>)>>) }
ChainOptions ==
  {Undef} \cup { Def([baseUrl |-> b, paths |-> p]) :
                   b \in {Undef, Def(<<"s">>)}, p \in ChainPaths }
ChainExtends == {Undef, Def(RefDotB), Def(RefB)}
ChainFile ==
  {MissingFile, MalformedFile}
    \cup { ConfigFile(co, e) : co \in ChainOptions, e \in ChainExtends }
ChainDisks == [Files -> ChainFile]

\* unusual values: empty strings, '..', backslashes, a directory, two-file cycles
EdgeBaseUrls == {Undef, Def(<<>>), Def(<<"s">>), Def(<<".", ".", "/", "t">>)}
EdgePaths == {Undef, Def(<<Entry(KeyA, <<TargetX>>)>>)}
EdgeExtends == {Undef, Def(<<>>), Def(RefDir), Def(RefBackB), Def(RefBackTs)}
EdgeParents ==
  {MissingFile, MalformedFile}
    \cup { ConfigFile(Def([baseUrl |-> Def(<<"s">>), paths |-> Def(<<Entry(k, <<TargetY>>)>>)]), e) :
             k \in {KeyA, KeyStarA}, e \in {Undef, Def(RefBackTs)} }
EdgeDisks ==
  { [f \in Files |->
       IF f = F1 THEN ConfigFile(Def([baseUrl |-> b, paths |-> p]), e)
       ELSE IF f = F2 THEN parent
       ELSE MissingFile] :
      b \in EdgeBaseUrls, p \in EdgePaths, e \in EdgeExtends, parent \in EdgeParents }

\* alias keys: every string over the key alphabet up to MaxKeyLen
KeyChars == {"a", "/", "\\", "*"}
Keys == UNION { [1..n -> KeyChars] : n \in 0..MaxKeyLen }
SecondEntries ==
  { <<>>,
    <<Entry(KeyBStar, <<>>)>>,
    <<Entry(KeyStarA, <<TargetY, TargetX>>)>>,
    <<Entry(KeyA, <<TargetY>>)>> }
KeyPathsFor(k) ==
  { <<Entry(k, <<TargetX>>)>> \o more :
      more \in { m \in SecondEntries : m = <<>> \/ m[1].key # k } }
KeyPaths == UNION { KeyPathsFor(k) : k \in Keys }
KeyDisks ==
  { [f \in Files |->
       IF f = F1 THEN ConfigFile(Def([baseUrl |-> b, paths |-> Def(p)]), Undef)
       ELSE MissingFile] :
      b \in {Undef, Def(<<"s">>)}, p \in KeyPaths }

Disks == ChainDisks \cup EdgeDisks \cup KeyDisks

----------------------------------------------------------------------------
(* File-system capability *)

FileKind(p) == IF p \in DOMAIN disk THEN disk[p].kind ELSE "missing"

IsPrefix(p, q) == Len(p) <= Len(q) /\ SubSeq(q, 1, Len(p)) = p

\* the working directory and every directory above an existing file exist
IsDir(p) ==
  \/ IsPrefix(p, CWD_PATH)
  \/ \E f \in DOMAIN disk : disk[f].kind # "missing" /\ Len(p) < Len(f) /\ IsPrefix(p, f)

existsSync(p) == IsDir(p) \/ FileKind(p) # "missing"

\* JSON5.parse(fs.readFileSync(p)) returns a value
Parses(p) == ~IsDir(p) /\ FileKind(p) = "config"

Json(p) == disk[p].json

Err(name, file, key, target) == [name |-> name, file |-> file, key |-> key, path |-> target]

\* what readFileSync or JSON5.parse throws for a path that exists
ReadError(p) ==
  IF IsDir(p) THEN Err("EISDIR", p, <<>>, Undef) ELSE Err("SyntaxError", p, <<>>, Undef)

----------------------------------------------------------------------------
(* readConfigFile *)

Frame(currentPath, tsconfig, fromFile) ==
  [currentPath |-> currentPath, tsconfig |-> tsconfig, fromFile |-> fromFile,
   pos |-> "entry", paths |-> <<>>, url |-> Undef]

configFile(f) == PathJoin(f.currentPath, <<f.tsconfig>>)

BaseUrlOf(json) ==
  IF IsDef(json.compilerOptions) THEN Val(json.compilerOptions).baseUrl ELSE Undef

\* url, set only when compilerOptions?.baseUrl is truthy
OwnUrl(cf, json) ==
  IF Truthy(BaseUrlOf(json))
    THEN Def(pathToFileURL(PathJoin(Dirname(cf), <<Append(Val(BaseUrlOf(json)), "/")>>)))
    ELSE Undef

\* compilerOptions?.paths || {}
OwnPaths(json) ==
  IF IsDef(json.compilerOptions) /\ IsDef(Val(json.compilerOptions).paths)
    THEN Val(Val(json.compilerOptions).paths)
    ELSE <<>>

HasKey(m, k) == \E i \in 1..Len(m) : m[i].key = k
Lookup(m, k) == m[CHOOSE i \in 1..Len(m) : m[i].key = k].value

Put(m, e) ==
  IF HasKey(m, e.key)
    THEN [i \in 1..Len(m) |-> IF m[i].key = e.key THEN e ELSE m[i]]
    ELSE Append(m, e)

RECURSIVE Spread(_, _)
\* { ...base, ...over }
Spread(base, over) ==
  IF over = <<>> THEN base ELSE Spread(Put(base, Head(over)), Tail(over))

StartsWithDot(s) == Len(s) > 0 /\ s[1] = "."

\* mutant: every reference is taken relative to the starting directory
extRootAlwaysCurrent(f, parentConfig) == f.currentPath
extRoot(f, parentConfig) == IF StartsWithDot(parentConfig) THEN f.currentPath ELSE MOD_PATH
extSubs(parentConfig) == SplitSlashes(parentConfig)
extPath(f, parentConfig) == PathJoin(extRoot(f, parentConfig), Front(extSubs(parentConfig)))

ExtendsCall(f, parentConfig) ==
  Frame(extPath(f, parentConfig), Last(extSubs(parentConfig)), Def(configFile(f)))

\* mutant: the parent's entries win
MergePathsParentWins(extPaths, paths) == Spread(paths, extPaths)
MergePaths(extPaths, paths) == Spread(extPaths, paths)
MergeUrl(url, extUrl) == IF IsDef(url) THEN url ELSE extUrl

Warning(cf, fromFile) == [level |-> "warn", file |-> cf, from |-> fromFile, error |-> Undef]
ErrorLog(cf, e) == [level |-> "error", file |-> cf, from |-> Undef, error |-> Def(e)]

Top == stack[Len(stack)]
Pop == Front(stack)

AtEntry == pc = "reading" /\ stack # <<>> /\ Top.pos = "entry"
AtCall == pc = "reading" /\ stack # <<>> /\ Top.pos = "call"

\* module load: extractAliases() calls readConfigFile() with its defaults
Start ==
  /\ pc = "init"
  /\ pc' = "reading"
  /\ stack' = <<Frame(CWD_PATH, TSCONFIG, Undef)>>
  /\ UNCHANGED <<disk, ret, exc, log, tsAliases>>

\* mutant: a missing file contributes the working directory as baseUrl
MissingResultWithCwd == [paths |-> <<>>, url |-> Def(CWD_URL)]

\* return { paths: {} }
MissingResult == [paths |-> <<>>, url |-> Undef]

\* the file is absent: warn and return { paths: {} }
Missing ==
  /\ AtEntry
  /\ ~existsSync(configFile(Top))
  /\ log' = Append(log, Warning(configFile(Top), Top.fromFile))
  /\ ret' = Def(MissingResult)
  /\ stack' = Pop
  /\ UNCHANGED <<disk, exc, pc, tsAliases>>

\* reading or parsing throws: the catch logs and rethrows
ParseFail ==
  /\ AtEntry
  /\ existsSync(configFile(Top))
  /\ ~Parses(configFile(Top))
  /\ log' = Append(log, ErrorLog(configFile(Top), ReadError(configFile(Top))))
  /\ exc' = Def(ReadError(configFile(Top)))
  /\ stack' = Pop
  /\ UNCHANGED <<disk, ret, pc, tsAliases>>

\* parsed, no (truthy) extends: return the file's own { paths, url }
Leaf ==
  /\ AtEntry
  /\ Parses(configFile(Top))
  /\ ~Truthy(Json(configFile(Top)).extends)
  /\ ret' = Def([paths |-> OwnPaths(Json(configFile(Top))),
                 url |-> OwnUrl(configFile(Top), Json(configFile(Top)))])
  /\ stack' = Pop
  /\ UNCHANGED <<disk, exc, log, pc, tsAliases>>

\* parsed, extends: the recursive call
Extend ==
  /\ AtEntry
  /\ Parses(configFile(Top))
  /\ Truthy(Json(configFile(Top)).extends)
  /\ Len(stack) < MaxStack
  /\ LET json == Json(configFile(Top))
         waiting == [Top EXCEPT !.pos = "call",
                                !.paths = OwnPaths(json),
                                !.url = OwnUrl(configFile(Top), json)]
     IN stack' = Append(Append(Pop, waiting), ExtendsCall(Top, Val(json.extends)))
  /\ UNCHANGED <<disk, ret, exc, log, pc, tsAliases>>

\* the recursive call exhausts the call stack: RangeError inside the try; the
\* catch rethrows it, and its console.error may itself find no stack left
StackOverflow ==
  /\ AtEntry
  /\ Parses(configFile(Top))
  /\ Truthy(Json(configFile(Top)).extends)
  /\ Len(stack) = MaxStack
  /\ \E logged \in BOOLEAN :
       log' = IF logged
                THEN Append(log, ErrorLog(configFile(Top), Err("RangeError", <<>>, <<>>, Undef)))
                ELSE log
  /\ exc' = Def(Err("RangeError", <<>>, <<>>, Undef))
  /\ stack' = Pop
  /\ UNCHANGED <<disk, ret, pc, tsAliases>>

\* the recursive call returned: merge and return
Merge ==
  /\ AtCall
  /\ IsDef(ret)
  /\ ret' = Def([paths |-> MergePaths(Val(ret).paths, Top.paths),
                 url |-> MergeUrl(Top.url, Val(ret).url)])
  /\ stack' = Pop
  /\ UNCHANGED <<disk, exc, log, pc, tsAliases>>

\* mutant: the catch logs the error and falls back to the file's own values
RethrowSwallowed ==
  /\ AtCall
  /\ IsDef(exc)
  /\ log' = Append(log, ErrorLog(configFile(Top), Val(exc)))
  /\ ret' = Def([paths |-> Top.paths, url |-> Top.url])
  /\ exc' = Undef
  /\ stack' = Pop
  /\ UNCHANGED <<disk, pc, tsAliases>>

\* the recursive call threw: this frame's catch logs and rethrows
Rethrow ==
  /\ AtCall
  /\ IsDef(exc)
  /\ log' = Append(log, ErrorLog(configFile(Top), Val(exc)))
  /\ stack' = Pop
  /\ UNCHANGED <<disk, ret, exc, pc, tsAliases>>

----------------------------------------------------------------------------
(* extractAliases *)

Count(filter) == Cardinality({i \in 1..Len(filter) : filter[i] = <<"*">>})

isWildcard(filter) == Last(filter) = <<"*">>

\* mutant: only a repeated wildcard is rejected
RejectsRepeatedOnly(key) == Count(SplitSlashes(key)) > 1 /\ Len(key) > 0

\* the check that throws the wildcard error
Rejects(key) ==
  /\ Count(SplitSlashes(key)) # (IF isWildcard(SplitSlashes(key)) THEN 1 ELSE 0)
  /\ Len(key) > 0

\* destructuring [path] of the candidate array
FirstOf(value) == IF value = <<>> THEN Undef ELSE Def(value[1])

\* mutant: the trailing '*' stays in the filter
RuleKeepsStar(e, url) ==
  [filter |-> SplitSlashes(e.key),
   isWildcard |-> isWildcard(SplitSlashes(e.key)),
   path |-> FirstOf(e.value),
   url |-> url]

Rule(e, url) ==
  LET filter == SplitSlashes(e.key) IN
  [filter |-> IF isWildcard(filter) THEN Front(filter) ELSE filter,
   isWildcard |-> isWildcard(filter),
   path |-> FirstOf(e.value),
   url |-> url]

\* mutant: the fallback is the package root
UrlOrModPath(cfg) == IF IsDef(cfg.url) THEN Val(cfg.url) ELSE pathToFileURL(MOD_PATH)

\* const { paths, url = CWD_URL } = readConfigFile()
UrlOrDefault(cfg) == IF IsDef(cfg.url) THEN Val(cfg.url) ELSE CWD_URL

Returned == pc = "reading" /\ stack = <<>> /\ IsDef(ret)

\* every entry maps to a rule: tsAliases is exported
Compile ==
  /\ Returned
  /\ \A i \in 1..Len(Val(ret).paths) : ~Rejects(Val(ret).paths[i].key)
  /\ tsAliases' = Def([i \in 1..Len(Val(ret).paths) |->
                         Rule(Val(ret).paths[i], UrlOrDefault(Val(ret)))])
  /\ pc' = "done"
  /\ UNCHANGED <<disk, stack, ret, exc, log>>

\* the first rejected entry throws out of the map
InvalidKey ==
  /\ Returned
  /\ \E i \in 1..Len(Val(ret).paths) :
       /\ Rejects(Val(ret).paths[i].key)
       /\ \A j \in 1..(i - 1) : ~Rejects(Val(ret).paths[j].key)
       /\ exc' = Def(Err("Error", <<>>, Val(ret).paths[i].key, FirstOf(Val(ret).paths[i].value)))
  /\ pc' = "failed"
  /\ UNCHANGED <<disk, stack, ret, log, tsAliases>>

\* readConfigFile threw: module load fails, nothing is exported
Abort ==
  /\ pc = "reading"
  /\ stack = <<>>
  /\ IsDef(exc)
  /\ pc' = "failed"
  /\ UNCHANGED <<disk, stack, ret, exc, log, tsAliases>>

----------------------------------------------------------------------------

Init ==
  /\ disk \in Disks
  /\ stack = <<>>
  /\ ret = Undef
  /\ exc = Undef
  /\ log = <<>>
  /\ pc = "init"
  /\ tsAliases = Undef

Next ==
  \/ Start
  \/ Missing
  \/ ParseFail
  \/ Leaf
  \/ Extend
  \/ StackOverflow
  \/ Merge
  \/ Rethrow
  \/ Compile
  \/ InvalidKey
  \/ Abort

Spec == Init /\ [][Next]_vars

----------------------------------------------------------------------------
(* The extends chain as the files on disk define it *)

TopFile == Append(CWD_PATH, TSCONFIG)

HasExtends(cf) == Parses(cf) /\ IsDef(Json(cf).extends) /\ Json(cf).extends # Def(<<>>)

\* the file an extends reference names: directory and file name joined at once
ParentOf(cf) ==
  LET ref == Val(Json(cf).extends) IN
  PathJoin(IF ref[1] = "." THEN Dirname(cf) ELSE MOD_PATH, SplitSlashes(ref))

RECURSIVE ChainFrom(_, _)
ChainFrom(cf, fuel) ==
  IF HasExtends(cf) /\ fuel > 0 THEN <<cf>> \o ChainFrom(ParentOf(cf), fuel - 1) ELSE <<cf>>

\* the file whose call has just returned or thrown
ReturnedFile == IF stack = <<>> THEN TopFile ELSE ParentOf(configFile(Top))

\* the chain below a file, as far as the call stack can follow it
ChainOf(cf) == ChainFrom(cf, MaxStack - 1 - Len(stack))

\* every file of the chain exists and parses, and the chain ends
AllParse(chain) ==
  /\ \A i \in 1..Len(chain) : Parses(chain[i])
  /\ ~HasExtends(chain[Len(chain)])

PathsOf(cf) == OwnPaths(Json(cf))
Defines(cf, k) == HasKey(PathsOf(cf), k)
Nearest(chain, k) ==
  CHOOSE i \in 1..Len(chain) :
    Defines(chain[i], k) /\ \A j \in 1..(i - 1) : ~Defines(chain[j], k)

\* module load has run to its end (no action is enabled in these states, and
\* some action is enabled in every other state)
Terminated == pc \in {"done", "failed"}

----------------------------------------------------------------------------
(* C1 *)

\* C1: whenever readConfigFile returns for a chain whose files all exist and
\* parse, every key some file of the chain defines is mapped to the candidate
\* list of the nearest file defining it, and the mapping has no other key.
C1_NearestFileWins ==
  (IsDef(ret) /\ AllParse(ChainOf(ReturnedFile))) =>
    LET chain == ChainOf(ReturnedFile)
        m == Val(ret).paths
    IN /\ \A i \in 1..Len(chain) : \A j \in 1..Len(PathsOf(chain[i])) :
            LET k == PathsOf(chain[i])[j].key IN
            /\ HasKey(m, k)
            /\ Lookup(m, k) = Lookup(PathsOf(chain[Nearest(chain, k)]), k)
       /\ \A n \in 1..Len(m) :
            /\ \E i \in 1..Len(chain) : Defines(chain[i], m[n].key)
            /\ \A n2 \in 1..Len(m) : m[n2].key = m[n].key => n2 = n

\* a three-file chain returned: one key overridden between the two ancestors,
\* one key defined by the last ancestor alone
C1_Witness ==
  /\ pc = "done"
  /\ AllParse(ChainOf(TopFile))
  /\ Len(ChainOf(TopFile)) = 3
  /\ LET c == ChainOf(TopFile) IN
     /\ \E k \in {KeyA, KeyBStar} :
          /\ ~Defines(c[1], k) /\ Defines(c[2], k) /\ Defines(c[3], k)
          /\ Lookup(PathsOf(c[2]), k) # Lookup(PathsOf(c[3]), k)
     /\ \E k \in {KeyA, KeyBStar} :
          ~Defines(c[1], k) /\ ~Defines(c[2], k) /\ Defines(c[3], k)

----------------------------------------------------------------------------
(* C2 *)

DefinesBaseUrl(cf) == IsDef(BaseUrlOf(Json(cf)))

\* the baseUrl of the nearest file that has the field, against that file's directory
NearestBaseUrl(chain) ==
  IF \E i \in 1..Len(chain) : DefinesBaseUrl(chain[i])
    THEN LET n == CHOOSE i \in 1..Len(chain) :
                    DefinesBaseUrl(chain[i]) /\ \A j \in 1..(i - 1) : ~DefinesBaseUrl(chain[j])
         IN Def(pathToFileURL(
                  PathJoin(Dirname(chain[n]), <<Val(BaseUrlOf(Json(chain[n]))), <<"/">> >>)))
    ELSE Undef

\* C2: whenever readConfigFile returns for a chain whose files all exist and
\* parse, the merged baseUrl is that of the nearest file whose compilerOptions
\* has a baseUrl of any string value, resolved against that file's directory,
\* and it is absent only when no file of the chain has one.
C2_NearestBaseUrlAnyString ==
  (IsDef(ret) /\ AllParse(ChainOf(ReturnedFile))) =>
    Val(ret).url = NearestBaseUrl(ChainOf(ReturnedFile))

----------------------------------------------------------------------------
(* C3 *)

\* C3: a missing file is never an error.  A call on a missing file returns the
\* empty mapping with no baseUrl, throws nothing, and its last log line is the
\* warning naming the missing file and the requesting file (none at top
\* level); no error is ever raised or logged for a file that does not exist;
\* a file whose extends names a missing parent returns its own paths and url.
C3_MissingFileIsEmpty ==
  /\ (IsDef(ret) /\ ~existsSync(ReturnedFile)) =>
       /\ Val(ret) = [paths |-> <<>>, url |-> Undef]
       /\ exc = Undef
       /\ log # <<>>
       /\ log[Len(log)] =
            [level |-> "warn", file |-> ReturnedFile,
             from |-> IF stack = <<>> THEN Undef ELSE Def(configFile(Top)),
             error |-> Undef]
  /\ \A i \in 1..Len(log) : log[i].level = "error" => existsSync(log[i].file)
  /\ ~existsSync(TopFile) => (exc = Undef /\ pc # "failed")
  /\ (IsDef(ret) /\ HasExtends(ReturnedFile) /\ ~existsSync(ParentOf(ReturnedFile))) =>
       Val(ret) = [paths |-> PathsOf(ReturnedFile),
                   url |-> OwnUrl(ReturnedFile, Json(ReturnedFile))]

\* an existing file with paths and a baseUrl, whose parent is missing, returned
C3_Witness ==
  /\ pc = "done"
  /\ HasExtends(TopFile)
  /\ ~existsSync(ParentOf(TopFile))
  /\ IsDef(Val(ret).url)
  /\ Val(ret).paths # <<>>
  /\ Len(log) = 1 /\ log[1].level = "warn" /\ log[1].from = Def(TopFile)

----------------------------------------------------------------------------
(* C4 *)

\* the chain from the starting file ends at a file that exists and does not parse
ChainFails == LET c == ChainOf(TopFile) IN existsSync(c[Len(c)]) /\ ~Parses(c[Len(c)])

\* C4: when the chain from the starting file reaches a file that exists and
\* fails to parse, no call along the chain returns a configuration, the only
\* exception ever in flight is that file's error, no alias list is produced,
\* and module load ends failed with that error.
C4_ParseFailurePropagates ==
  (stack = <<>> /\ ChainFails) =>
    LET c == ChainOf(TopFile) IN
    /\ ret = Undef
    /\ tsAliases = Undef
    /\ pc # "done"
    /\ IsDef(exc) => exc = Def(ReadError(c[Len(c)]))
    /\ Terminated => (pc = "failed" /\ IsDef(exc))

\* the third file of the chain failed to parse and module load failed
C4_Witness ==
  /\ pc = "failed"
  /\ ChainFails
  /\ Len(ChainOf(TopFile)) = 3
  /\ Val(exc).name = "SyntaxError"

----------------------------------------------------------------------------
(* C5 *)

\* position i of key k is outside the key or holds a separator
IsSepAt(k, i) == i < 1 \/ i > Len(k) \/ k[i] \in {"/", "\\"}
\* position i of key k is a whole segment equal to '*'
StarSegmentAt(k, i) == k[i] = "*" /\ IsSepAt(k, i - 1) /\ IsSepAt(k, i + 1)
StarSegments(k) == {i \in 1..Len(k) : StarSegmentAt(k, i)}
\* more than one '*' segment, or a '*' segment that is not the last segment
BadKey(k) ==
  \/ Cardinality(StarSegments(k)) > 1
  \/ \E i \in StarSegments(k) : i < Len(k)

\* C5: once readConfigFile has returned, extractAliases ends with the
\* invalid-key error iff some key of the merged mapping has more than one
\* '*' segment or a '*' segment that is not last; otherwise it exports the
\* list; the error names the first such key and no list is exported.
C5_InvalidKeyIff ==
  (stack = <<>> /\ IsDef(ret) /\ Terminated) =>
    LET m == Val(ret).paths
        bad == {i \in 1..Len(m) : BadKey(m[i].key)}
    IN IF bad = {}
         THEN pc = "done" /\ IsDef(tsAliases) /\ exc = Undef
         ELSE /\ pc = "failed"
              /\ tsAliases = Undef
              /\ IsDef(exc)
              /\ Val(exc).name = "Error"
              /\ \E i \in bad : Val(exc).key = m[i].key /\ \A j \in bad : i <= j

\* a valid wildcard key followed by an offending key: the whole list is lost
C5_Witness ==
  /\ pc = "failed"
  /\ stack = <<>>
  /\ IsDef(ret)
  /\ Len(Val(ret).paths) = 2
  /\ Val(ret).paths[1].key = <<"a", "\\", "*">>
  /\ Val(ret).paths[2].key = KeyStarA
  /\ Val(exc).key = KeyStarA

----------------------------------------------------------------------------
(* C6 *)

RECURSIVE JoinSlash(_)
JoinSlash(segs) ==
  IF segs = <<>> THEN <<>>
  ELSE IF Len(segs) = 1 THEN segs[1]
  ELSE segs[1] \o <<"/">> \o JoinSlash(Tail(segs))

\* the key with every backslash written as a slash
Slashed(k) == [i \in 1..Len(k) |-> IF k[i] = "\\" THEN "/" ELSE k[i]]
Separators(k) == Cardinality({i \in 1..Len(k) : k[i] \in {"/", "\\"}})

\* C6: the exported list has one rule per entry of the merged mapping, in
\* order; a rule is a wildcard iff its key ends in a '*' segment; its filter,
\* joined by slashes, is the key (less the trailing '/*' when wildcard) with
\* one segment per separated piece; its path is the first candidate.
C6_OneRulePerKey ==
  pc = "done" =>
    LET m == Val(ret).paths
        rules == Val(tsAliases)
    IN /\ Len(rules) = Len(m)
       /\ \A i \in 1..Len(m) :
            LET k == m[i].key
                r == rules[i]
                wild == Len(k) > 0 /\ StarSegmentAt(k, Len(k))
                stem == IF wild THEN SubSeq(k, 1, Len(k) - 2) ELSE k
            IN /\ r.isWildcard = wild
               /\ JoinSlash(r.filter) = Slashed(stem)
               /\ Len(r.filter) = Separators(k) + (IF wild THEN 0 ELSE 1)
               /\ \A n \in 1..Len(r.filter) : Separators(r.filter[n]) = 0
               /\ r.path = (IF Len(m[i].value) = 0 THEN Undef ELSE Def(m[i].value[1]))

\* a plain rule whose key has two candidates, then a wildcard rule
C6_Witness ==
  /\ pc = "done"
  /\ Len(Val(tsAliases)) = 2
  /\ ~Val(tsAliases)[1].isWildcard
  /\ Len(Val(ret).paths[1].value) = 2
  /\ Val(tsAliases)[2].isWildcard
  /\ Val(tsAliases)[2].filter = << <<"b">> >>

----------------------------------------------------------------------------
(* C7 *)

HasTruthyBaseUrl(cf) == Parses(cf) /\ DefinesBaseUrl(cf) /\ BaseUrlOf(Json(cf)) # Def(<<>>)

\* C7: every exported rule carries the same base reference: the url that
\* readConfigFile returned when it returned one, else CWD_URL; it is CWD_URL
\* whenever no file of the chain resolved a baseUrl.
C7_SharedBaseReference ==
  pc = "done" =>
    LET rules == Val(tsAliases)
        c == ChainOf(TopFile)
    IN /\ \A i \in 1..Len(rules) : \A j \in 1..Len(rules) : rules[i].url = rules[j].url
       /\ \A i \in 1..Len(rules) :
            rules[i].url = (IF Val(ret).url = Undef THEN CWD_URL ELSE Val(Val(ret).url))
       /\ (\A n \in 1..Len(c) : ~HasTruthyBaseUrl(c[n])) =>
            \A i \in 1..Len(rules) : rules[i].url = [pathname |-> CWD_PATH]

\* two rules exported from a chain of two files, neither resolving a baseUrl
C7_Witness ==
  /\ pc = "done"
  /\ Len(Val(tsAliases)) = 2
  /\ Len(ChainOf(TopFile)) = 2
  /\ Val(ret).url = Undef
  /\ Val(tsAliases)[2].url = CWD_URL

----------------------------------------------------------------------------
(* C8 *)

\* C8: module load ends either with the rule list exported or failed with a
\* parse (read) error or the invalid-key error, whatever the files on disk,
\* cyclic extends references included.
C8_EndsWithResultOrFatalError ==
  Terminated =>
    \/ pc = "done"
    \/ pc = "failed" /\ IsDef(exc) /\ Val(exc).name \in {"SyntaxError", "EISDIR", "Error"}

----------------------------------------------------------------------------
(* C9 *)

\* C9: every 'Error parsing <file>' line logged names a file that exists and
\* whose own content failed to parse.
C9_DiagnosticNamesOffendingFile ==
  \A i \in 1..Len(log) :
    log[i].level = "error" => (existsSync(log[i].file) /\ ~Parses(log[i].file))

----------------------------------------------------------------------------
(* C10 *)

\* C10: the outermost call has the defaults; every nested call was made by a
\* caller waiting on a file with an extends reference, and received the
\* reference's directory segments joined onto the caller's starting directory
\* (reference starting with '.') or onto MOD_PATH (otherwise), the
\* reference's last segment as file name, and the caller's file as fromFile.
C10_ParentLookup ==
  \A i \in 1..Len(stack) :
    IF i = 1
      THEN /\ stack[1].currentPath = CWD_PATH
           /\ stack[1].tsconfig = TSCONFIG
           /\ stack[1].fromFile = Undef
      ELSE LET caller == stack[i - 1]
               file == PathJoin(caller.currentPath, <<caller.tsconfig>>)
           IN /\ caller.pos = "call"
              /\ HasExtends(file)
              /\ LET ref == Val(Json(file).extends)
                     subs == Split(ref, {"/", "\\"})
                 IN /\ stack[i].currentPath =
                         PathJoin(IF ref[1] = "." THEN caller.currentPath ELSE MOD_PATH,
                                  SubSeq(subs, 1, Len(subs) - 1))
                    /\ stack[i].tsconfig = subs[Len(subs)]
                    /\ stack[i].fromFile = Def(file)

\* three calls deep: a relative hop from the starting directory, then a
\* package hop into MOD_PATH
C10_Witness ==
  /\ Len(stack) = 3
  /\ Val(Json(TopFile).extends) = RefDotB
  /\ stack[2].currentPath = CWD_PATH
  /\ stack[3].currentPath = MOD_PATH
  /\ stack[3].fromFile = Def(F2)

====
